---------------------------- MODULE Spec2Model ----------------------------
(***************************************************************************)
(* Model of the issue synchronisation engine of sonar-tools:               *)
(*   - the diff normalizer (diff_to_changelog) and the second changelog    *)
(*     interpreter (Changelog.changelog_type),                             *)
(*   - the changelog cache of an Issue, the merged timeline and the        *)
(*     replay of one issue's history onto another (apply_changelog),       *)
(*   - the adaptive search windower (search_project_issues).               *)
(* Python values are modelled as follows: a string is a TLA+ string, a     *)
(* dict is a function whose DOMAIN is the set of its keys, an event value  *)
(* is a sequence of strings (None is the empty sequence, a plain string s  *)
(* is <<s>>, a formatted "old -> new" is <<old, "->", new>>).  A raised    *)
(* exception is an outcome field "exc" of the result.                      *)
(***************************************************************************)
EXTENDS Integers, Sequences, FiniteSets, TLC

VARIABLES
    \* ---- diff normalizer
    diffs,          \* the diff list of one raw history entry (the input)
    nres,           \* result of diff_to_changelog(diffs), or NotRun
    cres,           \* result of Changelog(diffs).changelog_type(), or CNotRun
    \* ---- issues, changelog cache and replay
    srvlog,         \* server: issue -> raw changelog entries (issues/changelog)
    srvcomments,    \* server: issue -> 'comments' of the issue json, or NoComments
    changelog,      \* Issue.changelog : Null or the cached list of events
    comments,       \* Issue.comments  : Null or the cached list of comment events
    posted,         \* issue -> operations posted to the server for that issue
    last,           \* the last apply_changelog call and its outcome
    applied,        \* <<target, source>> pairs already replayed once
    \* ---- adaptive search windower
    dayProfile,     \* server: day -> profile of the issues created that day
    todOld, todNew, \* time of day of the oldest and of the newest issue
    wpc,            \* position of search_project_issues
    window_start, enddate, days_slice, current_slice, nbr_issues,
    got,            \* day -> number of issues of that day in the returned list
    added,          \* the fetches whose results were added: <<kind, count>>
    \* ---- issue matcher
    ia, ib,         \* the two issues of one Issue.match call (their attributes)
    mres,           \* results of ia.match(ib) and ia.identical_to(ib), or MNotRun
    an_issue,       \* search_siblings: the attributes of the target
    an_issue_key,   \* the key of the target: an issue of the pool's, or "T"
    attrs,          \* issue -> attributes of the Issue object
    issue_list,     \* search_siblings: the pool, a list of issues
    sres,           \* the last search_siblings call and its result
    \* ---- changelog cache
    call,           \* the last get_changelog / has_changelog call and what it did
    called,         \* the issues get_changelog has been called on
    \* ---- paginated search
    ptotal,         \* server: the number of issues matching the query
    pres            \* result of search_all_issues, or PNotRun

normVars   == <<diffs, nres, cres>>
replayVars == <<srvlog, srvcomments, changelog, comments, posted, last, applied>>
windowVars == <<dayProfile, todOld, todNew, wpc, window_start, enddate, days_slice,
                current_slice, nbr_issues, got, added>>
scoreVars   == <<ia, ib, mres>>
siblingVars == <<an_issue, an_issue_key, attrs, issue_list, sres>>
cacheVars   == <<call, called>>
pageVars    == <<ptotal, pres>>
moreVars    == <<scoreVars, siblingVars, cacheVars, pageVars>>
vars == <<normVars, replayVars, windowVars, moreVars>>

(***************************************************************************)
(* Bounds of the model                                                     *)
(***************************************************************************)
\* diffs in one raw history entry
MaxDiffs   == 2
\* dates of the history records of the issues
MaxDate    == 2
\* raw history records (changelog entries and comments) of all issues
\* operations posted to one issue, events in one cached changelog
MaxPosted  == 2
MaxLog     == 3
\* the last day with issues, and the number of days with issues
MaxDay     == 8
MaxBusy    == 2

(***************************************************************************)
(* Python values                                                           *)
(***************************************************************************)
None   == <<>>
V(s)   == <<s>>

\* The value of a let-bound expression: "The({F(x) : x \in {e}})" is F(e),
\* with e computed once.
The(S) == CHOOSE x \in S : TRUE

\* dict.get(k, default)
Get(d, k, default) == IF k \in DOMAIN d THEN d[k] ELSE default

Event(kind, value) == [event |-> kind, value |-> value]
\* get_event_from_diff's "event = None"
NoEvent == Event("None", None)

Ok(ev)     == [exc |-> "none", ev |-> ev]
KeyError   == [exc |-> "KeyError", ev |-> NoEvent]
\* no call made yet
NotRun     == [exc |-> "not run", ev |-> NoEvent]

\* the values of the variables of a component that has not run
NoIssue == [rule |-> "-", hash |-> "-", component |-> "-", message |-> "-",
            debt |-> "-", type |-> "-"]
MNotRun == [run |-> FALSE, tenths |-> 0, compared |-> FALSE, identical |-> FALSE]
SNoCall == [outcome |-> "not run", only_new_issues |-> FALSE, check_component |-> FALSE,
            siblings |-> <<>>]
GNoCall == [issue |-> "-", op |-> "none", force_api |-> FALSE, first |-> FALSE,
            stored |-> [loaded |-> FALSE, list |-> <<>>],
            requests |-> 0, exc |-> "none", result |-> <<>>]
PNotRun == [run |-> FALSE, n |-> 0, pages |-> <<>>]

(***************************************************************************)
(* Diff normalizer                                                         *)
(***************************************************************************)
resolution_diff_to_changelog(newval) ==
    IF newval = "FALSE-POSITIVE" THEN Event("transition", V("falsepositive"))
    ELSE IF newval = "WONTFIX" THEN Event("transition", V("wontfix"))
    ELSE IF newval = "FIXED" THEN Event("fixed", None)
    ELSE Event("unknown", None)

reopen_diff_to_changelog(oldval) ==
    IF oldval = "CONFIRMED" THEN Event("transition", V("unconfirm"))
    ELSE Event("transition", V("reopen"))

\* "d['newValue'] in d" tests whether the VALUE stored under newValue is one
\* of the KEYS of the dict d.
assignee_diff_to_changelog(d) ==
    IF d["newValue"] \in DOMAIN d THEN Event("assign", V(d["newValue"]))
    ELSE Event("unassign", None)

\* The function reads diff['newValue'] first (KeyError when absent), then runs
\* its "if" statements in order; the conditions exclude each other, and an
\* access to diff['oldValue'] raises KeyError when the diff has no oldValue.
get_event_from_diff(diff) ==
    LET dkey == diff["key"]
        hasOld == "oldValue" \in DOMAIN diff
    IN  IF "newValue" \notin DOMAIN diff THEN KeyError
        ELSE LET dnewval == diff["newValue"] IN
             IF dkey \in {"severity", "type", "tags"} THEN Ok(Event(dkey, V(dnewval)))
             ELSE IF dkey = "resolution" THEN Ok(resolution_diff_to_changelog(dnewval))
             ELSE IF dkey = "status" /\ dnewval = "CONFIRMED"
                  THEN Ok(Event("transition", V("confirm")))
             ELSE IF dkey = "status" /\ dnewval = "REOPENED"
                  THEN IF hasOld THEN Ok(reopen_diff_to_changelog(diff["oldValue"]))
                       ELSE KeyError
             ELSE IF dkey = "status" /\ dnewval = "OPEN"
                  THEN IF ~hasOld THEN KeyError
                       ELSE IF diff["oldValue"] = "CLOSED"
                            THEN Ok(Event("transition", V("reopen")))
                            ELSE Ok(NoEvent)
             ELSE IF dkey = "assignee" THEN Ok(assignee_diff_to_changelog(diff))
             ELSE IF dkey = "from_short_branch"
                  THEN IF hasOld THEN Ok(Event("merge", <<diff["oldValue"], "->", dnewval>>))
                       ELSE KeyError
             ELSE IF dkey = "effort"
                  THEN IF hasOld THEN Ok(Event("effort", <<diff["oldValue"], "->", dnewval>>))
                       ELSE KeyError
             ELSE Ok(NoEvent)

RECURSIVE diff_to_changelog_from(_, _)
diff_to_changelog_from(ds, i) ==
    IF i > Len(ds) THEN Ok(Event("unknown", None))
    ELSE The({IF r.exc # "none" THEN r
              ELSE IF r.ev # NoEvent THEN r
              ELSE diff_to_changelog_from(ds, i + 1) : r \in {get_event_from_diff(ds[i])}})

diff_to_changelog(ds) == diff_to_changelog_from(ds, 1)

(***************************************************************************)
(* Changelog (issue_changelog.py): the second interpreter of one history   *)
(* entry; log is the entry's diff list, self._json['diffs'].               *)
(***************************************************************************)
is_resolve_as(log, resolve_reason) ==
    /\ \E i \in 1..Len(log) : /\ log[i]["key"] = "resolution"
                              /\ "newValue" \in DOMAIN log[i]
                              /\ log[i]["newValue"] = "FIXED"
    /\ \E i \in 1..Len(log) : /\ log[i]["key"] = "status"
                              /\ "newValue" \in DOMAIN log[i]
                              /\ log[i]["newValue"] = resolve_reason

is_resolve_as_fixed(log) == is_resolve_as(log, "FIXED")
is_resolve_as_fp(log)    == is_resolve_as(log, "FALSE-POSITIVE")
is_resolve_as_wf(log)    == is_resolve_as(log, "WONTFIX")
is_closed(log)           == is_resolve_as(log, "CLOSED")

is_status(log, status) ==
    Get(log[1], "key", "") = "status" /\ Get(log[1], "newValue", "") = status

\* The old value is looked up under the key 'oldVal'.
is_reopen(log)    == is_status(log, "REOPENED") /\ Get(log[1], "oldVal", "") # "CONFIRMED"
is_confirm(log)   == is_status(log, "CONFIRMED")
is_unconfirm(log) == is_status(log, "REOPENED") /\ Get(log[1], "oldVal", "") = "CONFIRMED"

is_change_severity(log)  == Get(log[1], "key", "") = "severity"
is_change_type(log)      == Get(log[1], "key", "") = "type"
is_technical_change(log) ==
    Get(log[1], "key", "") \in {"from_short_branch", "from_branch", "effort"}
is_assignment(log)       == Get(log[1], "key", "") = "assignee"
is_tag(log)              == Get(log[1], "key", "") = "tag"

\* str.replace(' ', ',') on the strings of the model: TagString is the only
\* one that holds a space.
TagString  == "sec perf"
replace_space_comma(s) == IF s = TagString THEN "sec,perf" ELSE s

\* d.get('newValue', None)
new_value(log) == IF "newValue" \in DOMAIN log[1] THEN V(log[1]["newValue"]) ELSE None
tags(log) == V(replace_space_comma(Get(log[1], "newValue", "")))

CType(t, v) == [ctype |-> t, value |-> v]
CNotRun     == CType("not run", None)

changelog_type(log) ==
    IF is_assignment(log) THEN CType("ASSIGN", new_value(log))
    ELSE IF is_reopen(log) THEN CType("REOPEN", None)
    ELSE IF is_confirm(log) THEN CType("CONFIRM", None)
    ELSE IF is_unconfirm(log) THEN CType("UNCONFIRM", None)
    ELSE IF is_change_severity(log) THEN CType("SEVERITY", new_value(log))
    ELSE IF is_change_type(log) THEN CType("TYPE", new_value(log))
    ELSE IF is_resolve_as_fixed(log) THEN CType("FIXED", None)
    ELSE IF is_resolve_as_fp(log) THEN CType("FALSE-POSITIVE", None)
    ELSE IF is_resolve_as_wf(log) THEN CType("WONT-FIX", None)
    ELSE IF is_tag(log) THEN CType("TAG", tags(log))
    ELSE IF is_closed(log) THEN CType("INTERNAL", None)
    ELSE IF is_technical_change(log) THEN CType("INTERNAL", None)
    ELSE CType("None", None)

(***************************************************************************)
(* The raw diffs the server can send: a key, and an optional oldValue and  *)
(* newValue (the server leaves out an empty one).                          *)
(***************************************************************************)
Absent == "-"

MkDiff(k, o, n) ==
    [f \in {"key"} \cup (IF o = Absent THEN {} ELSE {"oldValue"})
                   \cup (IF n = Absent THEN {} ELSE {"newValue"})
       |-> IF f = "key" THEN k ELSE IF f = "oldValue" THEN o ELSE n]

DiffsOf(keys, olds, news) == {MkDiff(k, o, n) : k \in keys, o \in olds, n \in news}

Diffs ==
    DiffsOf({"severity", "type"}, {Absent}, {Absent, "MAJOR"})
    \cup DiffsOf({"tags", "tag"}, {Absent}, {Absent, TagString})
    \cup DiffsOf({"resolution"}, {Absent},
                 {Absent, "FALSE-POSITIVE", "WONTFIX", "FIXED", "REMOVED"})
    \cup DiffsOf({"status"}, {Absent, "CONFIRMED", "CLOSED"},
                 {Absent, "CONFIRMED", "REOPENED", "OPEN", "RESOLVED"})
    \cup DiffsOf({"assignee"}, {Absent, "john"}, {Absent, "mary", "key"})
    \cup DiffsOf({"from_short_branch", "effort"}, {Absent, "b1"}, {Absent, "b2"})
    \cup DiffsOf({"line"}, {Absent}, {Absent, "12"})

\* Callers pass at least one diff.
RECURSIVE DiffListsOfLen(_)
DiffListsOfLen(n) ==
    IF n = 0 THEN {<<>>}
    ELSE {Append(l, d) : l \in DiffListsOfLen(n - 1), d \in Diffs}
DiffLists(max) == UNION {DiffListsOfLen(n) : n \in 1..max}

(***************************************************************************)
(* Specification of the normalizer: one raw entry, both interpreters.      *)
(***************************************************************************)
NormInit ==
    /\ diffs \in DiffLists(MaxDiffs)
    /\ nres = NotRun
    /\ cres = CNotRun
    /\ srvlog = [i \in {"A", "B"} |-> <<>>]
    /\ srvcomments = [i \in {"A", "B"} |-> [present |-> FALSE, list |-> <<>>]]
    /\ changelog = [i \in {"A", "B"} |-> [loaded |-> FALSE, list |-> <<>>]]
    /\ comments = [i \in {"A", "B"} |-> [loaded |-> FALSE, list |-> <<>>]]
    /\ posted = [i \in {"A", "B"} |-> <<>>]
    /\ last = [target |-> "-", source |-> "-", outcome |-> "none", ops |-> <<>>,
               events |-> <<>>, timeline |-> <<>>, second |-> FALSE]
    /\ applied = {}
    /\ dayProfile = [d \in 0..MaxDay |-> "empty"]
    /\ todOld = 0 /\ todNew = 0
    /\ wpc = "idle"
    /\ window_start = 0 /\ enddate = 0 /\ days_slice = 0 /\ current_slice = 0
    /\ nbr_issues = 0
    /\ got = [d \in 0..MaxDay |-> 0]
    /\ added = {}
    /\ ia = NoIssue /\ ib = NoIssue /\ mres = MNotRun
    /\ an_issue = NoIssue /\ attrs = [i \in {"A", "B"} |-> NoIssue]
    /\ an_issue_key = "-"
    /\ issue_list = <<>> /\ sres = SNoCall
    /\ call = GNoCall /\ called = {}
    /\ ptotal = 0 /\ pres = PNotRun

DiffToChangelog ==
    /\ nres = NotRun
    /\ nres' = diff_to_changelog(diffs)
    /\ UNCHANGED <<diffs, cres, replayVars, windowVars, moreVars>>

ChangelogType ==
    /\ cres = CNotRun
    /\ cres' = changelog_type(diffs)
    /\ UNCHANGED <<diffs, nres, replayVars, windowVars, moreVars>>

NormNext == DiffToChangelog \/ ChangelogType

(***************************************************************************)
(* Issues: the server side (raw changelog, comments of the issue json) and *)
(* the Issue object's caches.  Dates are numbers: the order of the date    *)
(* strings of one server is the order of the instants.                     *)
(***************************************************************************)
Issues == {"A", "B"}

Dates   == 1..MaxDate

\* the raw entries' diff lists used for issues' histories: a severity change,
\* an entry that maps to no event, a cleared resolution (no newValue), a
\* resolution as FIXED
SeverityEntry == <<MkDiff("severity", Absent, "MAJOR")>>
UnknownEntry  == <<MkDiff("line", Absent, "12")>>
ClearedEntry  == <<MkDiff("resolution", Absent, Absent)>>
FixedEntry    == <<MkDiff("resolution", Absent, "FIXED")>>
EntryDiffs    == {SeverityEntry, UnknownEntry, ClearedEntry, FixedEntry}

RawEntries  == [creationDate : Dates, diffs : EntryDiffs]
RawComments == [createdAt : Dates, markdown : {"note"}]

\* the sequences over S of length n, in ascending date order (the server
\* lists a history in the order it happened)
RECURSIVE SeqsOfLen(_, _)
SeqsOfLen(S, n) ==
    IF n = 0 THEN {<<>>}
    ELSE {Append(l, x) : l \in SeqsOfLen(S, n - 1), x \in S}

DateOf(x) == IF "creationDate" \in DOMAIN x THEN x.creationDate ELSE x.createdAt
Ascending(l) == \A i \in 1..(Len(l) - 1) : DateOf(l[i]) <= DateOf(l[i + 1])

MaxRecords == 2
Histories(S, n) == {l \in SeqsOfLen(S, n) : Ascending(l)}

\* the issue json of the search holds a 'comments' list, or no such key
WithComments(l) == [present |-> TRUE, list |-> l]
NoComments      == [present |-> FALSE, list |-> <<>>]

Unloaded  == [loaded |-> FALSE, list |-> <<>>]
Loaded(l) == [loaded |-> TRUE, list |-> l]

\* Issue.get_changelog: the parse of the raw entries stops at the first
\* entry whose diff_to_changelog raises; self.changelog, assigned [] before
\* the loop, keeps the events appended so far.
RECURSIVE parse_changelog(_, _, _)
parse_changelog(raw, i, acc) ==
    IF i > Len(raw) THEN [exc |-> "none", list |-> acc]
    ELSE The({IF d.exc # "none" THEN [exc |-> d.exc, list |-> acc]
              ELSE parse_changelog(raw, i + 1,
                       Append(acc, [date |-> raw[i].creationDate,
                                    event |-> d.ev.event, value |-> d.ev.value])) :
              d \in {diff_to_changelog(raw[i].diffs)}})

\* get_changelog on an issue whose cache is cl and whose raw history is raw:
\* the outcome and the new value of self.changelog
\* a test of the cache that ignores force_api
NeedsRequestOnce(cl, force_api) == ~cl.loaded

\* if (force_api or self.changelog is None)
NeedsRequest(cl, force_api) == force_api \/ ~cl.loaded

get_changelog(cl, raw, force_api) ==
    IF NeedsRequest(cl, force_api)
    THEN The({[exc |-> r.exc, cl |-> Loaded(r.list), req |-> 1] :
              r \in {parse_changelog(raw, 1, <<>>)}})
    ELSE [exc |-> "none", cl |-> cl, req |-> 0]

\* has_changelog calls get_changelog() twice, for the log line and for the
\* result, and compares the length to 0; req counts the requests of both
has_changelog(cl, raw) ==
    The({IF r.exc # "none"
         THEN [exc |-> r.exc, cl |-> r.cl, has |-> Len(r.cl.list) > 0, req |-> r.req]
         ELSE The({[exc |-> q.exc, cl |-> q.cl, has |-> Len(q.cl.list) > 0,
                    req |-> r.req + q.req] :
                   q \in {get_changelog(r.cl, raw, FALSE)}}) :
         r \in {get_changelog(cl, raw, FALSE)}})

comment_events(l) ==
    [i \in 1..Len(l) |-> [date |-> l[i].createdAt, event |-> "comment",
                          value |-> V(l[i].markdown)]]

\* get_comments: the new value of self.comments (also the list returned)
get_comments(cm, json) ==
    IF ~json.present THEN Loaded(<<>>)
    ELSE IF ~cm.loaded THEN Loaded(comment_events(json.list))
    ELSE cm

\* a dict by date that keeps the first event of each date
BydateFirst(events) ==
    [d \in {events[i].date : i \in 1..Len(events)} |->
        events[CHOOSE i \in 1..Len(events) :
                  /\ events[i].date = d
                  /\ \A j \in 1..(i - 1) : events[j].date # d]]

\* bydate[e['date']] = e for e in events: the last event of each date
bydate(events) ==
    [d \in {events[i].date : i \in 1..Len(events)} |->
        events[CHOOSE i \in 1..Len(events) :
                  /\ events[i].date = d
                  /\ \A j \in (i + 1)..Len(events) : events[j].date # d]]

\* get_all_events: "events" IS the list self.changelog, so the comments
\* appended to it are appended to the cache.  events is that list; with
\* is_sorted the caller gets bydate(events).
get_all_events(cl, raw, cm, json) ==
    The({IF r.exc # "none" THEN [exc |-> r.exc, cl |-> r.cl, cm |-> cm, events |-> <<>>]
         ELSE [exc |-> "none", cl |-> Loaded(r.cl.list \o c.list), cm |-> c,
               events |-> r.cl.list \o c.list] :
         r \in {get_changelog(cl, raw, FALSE)}, c \in {get_comments(cm, json)}})

(***************************************************************************)
(* Replay: apply_changelog(target_issue, source_issue)                     *)
(***************************************************************************)
Op(name, arg) == [op |-> name, arg |-> arg]

is_event_a_comment(e)             == e.event = "comment"
is_event_an_assignment(e)         == e.event = "assign"
is_event_a_resolve_as_fp(e)       == e.event = "transition" /\ e.value = V("falsepositive")
is_event_a_resolve_as_wf(e)       == e.event = "transition" /\ e.value = V("wontfix")
\* a test that takes the 'fixed' events for resolutions as reviewed
ReviewedWhenFixed(e)              == e.event = "fixed"
is_event_a_resolve_as_reviewed(e) == FALSE
is_event_a_severity_change(e)     == e.event = "severity"
is_event_a_reopen(e)              == e.event = "transition" /\ e.value = V("reopen")
is_event_a_type_change(e)         == e.event = "type"
is_event_a_tag_change(e)          == e.event = "tags"

\* the if/elif chain of the replay loop: the operations posted for one event
dispatch(e) ==
    IF is_event_a_severity_change(e) THEN <<Op("set_severity", e.value)>>
    ELSE IF is_event_a_type_change(e) THEN <<Op("set_type", e.value)>>
    ELSE IF is_event_a_reopen(e) THEN <<Op("do_transition", V("reopen"))>>
    ELSE IF is_event_a_resolve_as_fp(e) THEN <<Op("do_transition", V("falsepositive"))>>
    ELSE IF is_event_a_resolve_as_wf(e) THEN <<Op("do_transition", V("wontfix"))>>
    ELSE IF is_event_a_resolve_as_reviewed(e) THEN <<Op("mark_as_reviewed", None)>>
    ELSE IF is_event_an_assignment(e) THEN <<Op("assign", e.value)>>
    ELSE IF is_event_a_tag_change(e)
         THEN <<Op("set_tags", V(replace_space_comma(e.value[1])))>>
    ELSE IF is_event_a_comment(e) THEN <<Op("add_comment", e.value)>>
    ELSE <<>>

\* sorted(keys): the keys of a dict in ascending order
RECURSIVE sorted(_)
sorted(S) ==
    IF S = {} THEN <<>>
    ELSE The({<<m>> \o sorted(S \ {m}) : m \in {x \in S : \A y \in S : x <= y}})

\* The source runs under Python 3 only (the zero-argument super() of
\* Issue.__init__), where a dict has no attribute iterkeys: evaluating
\* events.iterkeys() raises AttributeError.
DictHasIterkeys == FALSE

RECURSIVE replay_from(_, _, _)
replay_from(dict, keys, i) ==
    IF i > Len(keys) THEN <<>>
    ELSE dispatch(dict[keys[i]]) \o replay_from(dict, keys, i + 1)

\* "for d in sorted(events.iterkeys())": the operations posted by the loop
replay(dict) ==
    IF DictHasIterkeys
    THEN [exc |-> "none", ops |-> replay_from(dict, sorted(DOMAIN dict), 1)]
    ELSE [exc |-> "AttributeError", ops |-> <<>>]

IntroComment(source) == Op("add_comment", <<"Synchronized from", source>>)

\* the events of a dict by date, in ascending date order
Timeline(dict) == The({[i \in 1..Len(k) |-> dict[k[i]]] : k \in {sorted(DOMAIN dict)}})

\* One call of apply_changelog on the caches tcl (target), scl and scm
\* (source): the outcome, the caches after it and the operations posted.
apply_changelog(t, s, tcl, scl, scm) ==
    The({IF h.exc # "none"
         THEN [outcome |-> h.exc, tcl |-> h.cl, scl |-> scl, scm |-> scm,
               ops |-> <<>>, events |-> <<>>, timeline |-> <<>>]
         ELSE IF h.has
         THEN [outcome |-> "refused", tcl |-> h.cl, scl |-> scl, scm |-> scm,
               ops |-> <<>>, events |-> <<>>, timeline |-> <<>>]
         ELSE The({IF g.exc # "none"
                   THEN [outcome |-> g.exc, tcl |-> h.cl, scl |-> g.cl, scm |-> g.cm,
                         ops |-> <<>>, events |-> <<>>, timeline |-> <<>>]
                   ELSE IF g.events = <<>>
                   THEN [outcome |-> "no events", tcl |-> h.cl, scl |-> g.cl, scm |-> g.cm,
                         ops |-> <<>>, events |-> <<>>, timeline |-> <<>>]
                   ELSE The({[outcome |-> IF r.exc = "none" THEN "replayed" ELSE r.exc,
                              tcl |-> h.cl, scl |-> g.cl, scm |-> g.cm,
                              ops |-> <<IntroComment(s)>> \o r.ops,
                              events |-> g.events,
                              timeline |-> Timeline(bydate(g.events))] :
                             r \in {replay(bydate(g.events))}}) :
                   g \in {get_all_events(scl, srvlog[s], scm, srvcomments[s])}}) :
         h \in {has_changelog(tcl, srvlog[t])}})

NoCall == [target |-> "-", source |-> "-", outcome |-> "none", ops |-> <<>>,
           events |-> <<>>, timeline |-> <<>>, second |-> FALSE]


\* the 'comments' of an issue json with n comments
CommentLists(n) ==
    IF n = 0 THEN {NoComments, WithComments(<<>>)}
    ELSE {WithComments(l) : l \in Histories(RawComments, n)}

\* the issues' raw histories: at most MaxRecords server records in all
ReplayInit ==
    /\ diffs = <<>> /\ nres = NotRun /\ cres = CNotRun
    /\ \E nl \in [Issues -> 0..MaxRecords], nc \in [Issues -> 0..MaxRecords] :
          /\ nl["A"] + nl["B"] + nc["A"] + nc["B"] <= MaxRecords
          /\ \E la \in Histories(RawEntries, nl["A"]), lb \in Histories(RawEntries, nl["B"]),
                ca \in CommentLists(nc["A"]), cb \in CommentLists(nc["B"]) :
                /\ srvlog = [i \in Issues |-> IF i = "A" THEN la ELSE lb]
                /\ srvcomments = [i \in Issues |-> IF i = "A" THEN ca ELSE cb]
    /\ changelog = [i \in Issues |-> Unloaded]
    /\ comments = [i \in Issues |-> Unloaded]
    /\ posted = [i \in Issues |-> <<>>]
    /\ last = NoCall
    /\ applied = {}
    /\ dayProfile = [d \in 0..MaxDay |-> "empty"]
    /\ todOld = 0 /\ todNew = 0
    /\ wpc = "idle"
    /\ window_start = 0 /\ enddate = 0 /\ days_slice = 0 /\ current_slice = 0
    /\ nbr_issues = 0
    /\ got = [d \in 0..MaxDay |-> 0]
    /\ added = {}
    /\ ia = NoIssue /\ ib = NoIssue /\ mres = MNotRun
    /\ an_issue = NoIssue /\ attrs = [i \in {"A", "B"} |-> NoIssue]
    /\ an_issue_key = "-"
    /\ issue_list = <<>> /\ sres = SNoCall
    /\ call = GNoCall /\ called = {}
    /\ ptotal = 0 /\ pres = PNotRun

GetChangelog(i, force_api) ==
    /\ changelog' = [changelog EXCEPT ![i] = get_changelog(@, srvlog[i], force_api).cl]
    /\ UNCHANGED <<srvlog, srvcomments, comments, posted, last, applied>>
    /\ UNCHANGED <<normVars, windowVars, moreVars>>

GetAllEvents(i) ==
    /\ Len(changelog[i].list) < MaxLog
    /\ \E g \in {get_all_events(changelog[i], srvlog[i], comments[i], srvcomments[i])} :
         /\ changelog' = [changelog EXCEPT ![i] = g.cl]
         /\ comments' = [comments EXCEPT ![i] = g.cm]
    /\ UNCHANGED <<srvlog, srvcomments, posted, last, applied, normVars, windowVars, moreVars>>

ApplyChangelog(t, s) ==
    /\ t # s
    /\ Len(posted[t]) < MaxPosted
    /\ Len(changelog[s].list) < MaxLog
    /\ \E a \in {apply_changelog(t, s, changelog[t], changelog[s], comments[s])} :
         /\ changelog' = [changelog EXCEPT ![t] = a.tcl, ![s] = a.scl]
         /\ comments' = [comments EXCEPT ![s] = a.scm]
         /\ posted' = [posted EXCEPT ![t] = @ \o a.ops]
         /\ last' = [target |-> t, source |-> s, outcome |-> a.outcome, ops |-> a.ops,
                     events |-> a.events, timeline |-> a.timeline,
                     second |-> <<t, s>> \in applied]
         /\ applied' = IF a.timeline # <<>> THEN applied \cup {<<t, s>>} ELSE applied
    /\ UNCHANGED <<srvlog, srvcomments, normVars, windowVars, moreVars>>

ReplayNext ==
    \/ \E i \in Issues, f \in BOOLEAN : GetChangelog(i, f)
    \/ \E i \in Issues : GetAllEvents(i)
    \/ \E t \in Issues, s \in Issues : ApplyChangelog(t, s)

(***************************************************************************)
(* Adaptive search windower: search_project_issues                         *)
(***************************************************************************)
MAX_ISSUE_SEARCH == 10000
PageSize == 500
MaxPages == 20

Severities == {"INFO", "MINOR", "MAJOR", "CRITICAL", "BLOCKER"}
Types      == {"CODE_SMELL", "VULNERABILITY", "BUG", "SECURITY_HOTSPOT"}
Partitions == Severities \X Types

RECURSIVE SumOver(_, _)
SumOver(S, f) ==
    IF S = {} THEN 0
    ELSE The({f[x] + SumOver(S \ {x}, f) : x \in {CHOOSE y \in S : TRUE}})

\* ---- the server's issues: the days 0..MaxDay, each with a profile
Days    == 0..MaxDay

\* a day's issues by (severity, type): none; a few; more than the cap in
\* all but fewer in each partition; more than the cap in one partition
Profile(name) ==
    [p \in Partitions |->
        IF name = "small" /\ p = <<"MAJOR", "BUG">> THEN 500
        ELSE IF name = "split" /\ p \in {<<"MAJOR", "BUG">>, <<"MINOR", "CODE_SMELL">>}
             THEN 6000
        ELSE IF name = "over" /\ p = <<"MAJOR", "BUG">> THEN 10500
        ELSE 0]
BusyProfiles == {"small", "split", "over"}

Count(d, p) == Profile(dayProfile[d])[p]
DayTotal(d) == The({SumOver(Partitions, f) : f \in {Profile(dayProfile[d])}})
BusyDays    == {d \in Days : dayProfile[d] # "empty"}
Total       == The({SumOver(Days, f) : f \in {[d \in Days |-> DayTotal(d)]}})

\* an instant is a day and a time of day (morning, evening)
TimesOfDay  == {0, 1}
TicksPerDay == Cardinality(TimesOfDay)
Instant(day, tod) == day * TicksPerDay + tod
\* datetime + timedelta(days = n)
PlusDays(t, n) == t + n * TicksPerDay
\* (t2 - t1).days
DaysBetween(t1, t2) == (t2 - t1) \div TicksPerDay
Abs(x) == IF x < 0 THEN 0 - x ELSE x
\* util.format_date: the date of an instant, without its time
format_date(t) == t \div TicksPerDay

\* the server's answer to createdAfter = a, createdBefore = b, both dates:
\* the issues created on the days a to b
Matching(a, b) ==
    The({SumOver(W, f) : W \in {{d \in Days : a <= d /\ d <= b}},
                         f \in {[d \in {e \in Days : a <= e /\ e <= b} |-> DayTotal(d)]}})

\* search: page p of a query with total matching issues
search(total, p) ==
    The({[page |-> p, pages |-> ((total - 1) \div PageSize) + 1,
          n |-> IF rest <= 0 THEN 0 ELSE IF rest < PageSize THEN rest ELSE PageSize] :
         rest \in {total - (p - 1) * PageSize}})

\* the loop test of the pages, without the limit of MaxPages pages
MorePagesNoCap(page, nbr_pages) == page <= nbr_pages

\* the loop test of the pages
MorePages(page, nbr_pages) == page <= nbr_pages /\ page <= MaxPages

\* the loop of search_all_issues from page on: n issues got so far, pages
\* the pages requested so far
RECURSIVE search_all_issues_from(_, _, _, _, _)
search_all_issues_from(page, nbr_pages, total, n, pages) ==
    IF MorePages(page, nbr_pages)
    THEN The({search_all_issues_from(r.page + 1, r.pages, total, n + r.n,
                                     Append(pages, page)) :
              r \in {search(total, page)}})
    ELSE [n |-> n, pages |-> pages]

\* search_all_issues for a query that total issues match: the number of
\* issues returned and the pages requested
search_all_issues_run(total) == search_all_issues_from(1, 1, total, 0, <<>>)

\* search_all_issues: the number of issues returned for a query that total
\* issues match
search_all_issues(total) == search_all_issues_run(total).n

\* a saturated fetch that leaves the slice as it is
ResliceStuck(slice) == slice

\* the slice after a saturated fetch
Reslice(slice) == slice \div 2

\* the start of the window after an accepted one
NextWindow(window_stop) == PlusDays(window_stop, 1)

\* the loop test of the windows
MoreWindows(start, end) == start <= end

\* the first slice
FirstSlice(startdate, end, nbr) ==
    IF nbr > MAX_ISSUE_SEARCH
    THEN (MAX_ISSUE_SEARCH * (Abs(DaysBetween(startdate, end)) + 1)) \div (nbr * 4)
    ELSE Abs(DaysBetween(startdate, end)) + 1

\* Days are counted from the day of the oldest issue: day 0 has issues
\* unless there is no issue at all.
WindowInit ==
    /\ \E first \in BusyProfiles \cup {"empty"}, B \in SUBSET (Days \ {0}) :
          /\ first = "empty" => B = {}
          /\ Cardinality(B) < MaxBusy
          /\ \E f \in [B -> BusyProfiles] :
                dayProfile = [d \in Days |-> IF d = 0 THEN first
                                             ELSE IF d \in B THEN f[d] ELSE "empty"]
    /\ todOld \in TimesOfDay /\ todNew \in TimesOfDay
    /\ Cardinality(BusyDays) = 1 => todOld <= todNew
    /\ BusyDays = {} => todOld = 0 /\ todNew = 0
    /\ wpc = "start"
    /\ window_start = 0 /\ enddate = 0 /\ days_slice = 0 /\ current_slice = 0
    /\ nbr_issues = 0
    /\ got = [d \in Days |-> 0]
    /\ added = {}
    /\ ia = NoIssue /\ ib = NoIssue /\ mres = MNotRun
    /\ an_issue = NoIssue /\ attrs = [i \in {"A", "B"} |-> NoIssue]
    /\ an_issue_key = "-"
    /\ issue_list = <<>> /\ sres = SNoCall
    /\ call = GNoCall /\ called = {}
    /\ ptotal = 0 /\ pres = PNotRun
    /\ diffs = <<>> /\ nres = NotRun /\ cres = CNotRun
    /\ srvlog = [i \in Issues |-> <<>>]
    /\ srvcomments = [i \in Issues |-> NoComments]
    /\ changelog = [i \in Issues |-> Unloaded]
    /\ comments = [i \in Issues |-> Unloaded]
    /\ posted = [i \in Issues |-> <<>>]
    /\ last = NoCall
    /\ applied = {}

OldestDay == CHOOSE d \in BusyDays : \A e \in BusyDays : d <= e
NewestDay == CHOOSE d \in BusyDays : \A e \in BusyDays : e <= d

\* no issue: get_oldest_issue is None and the search returns []
StartEmpty ==
    /\ wpc = "start" /\ BusyDays = {}
    /\ wpc' = "done"
    /\ UNCHANGED <<normVars, replayVars, moreVars>>
    /\ UNCHANGED <<dayProfile, todOld, todNew, window_start, enddate, days_slice,
                   current_slice, nbr_issues, got, added>>

Start ==
    /\ wpc = "start" /\ BusyDays # {}
    /\ \E startdate \in {Instant(OldestDay, todOld)}, end \in {Instant(NewestDay, todNew)},
          nbr \in {Total} :
          /\ enddate' = end
          /\ nbr_issues' = nbr
          /\ days_slice' = FirstSlice(startdate, end, nbr)
          /\ window_start' = startdate
    /\ wpc' = "outer"
    /\ UNCHANGED <<normVars, replayVars, moreVars>>
    /\ UNCHANGED <<dayProfile, todOld, todNew, current_slice, got, added>>

\* while window_start <= enddate
Outer ==
    /\ wpc = "outer" /\ MoreWindows(window_start, enddate)
    /\ current_slice' = days_slice
    /\ wpc' = "inner"
    /\ UNCHANGED <<normVars, replayVars, moreVars>>
    /\ UNCHANGED <<dayProfile, todOld, todNew, window_start, enddate, days_slice,
                   nbr_issues, got, added>>

Finish ==
    /\ wpc = "outer" /\ ~MoreWindows(window_start, enddate)
    /\ wpc' = "done"
    /\ UNCHANGED <<normVars, replayVars, moreVars>>
    /\ UNCHANGED <<dayProfile, todOld, todNew, window_start, enddate, days_slice,
                   current_slice, nbr_issues, got, added>>

window_stop  == PlusDays(window_start, current_slice)
WindowDays   == {d \in Days : format_date(window_start) <= d /\ d <= format_date(window_stop)}
found_issues ==
    The({search_all_issues(m) :
         m \in {Matching(format_date(window_start), format_date(window_stop))}})

\* a fetch below the cap holds every issue of its window
Accept ==
    /\ wpc = "inner"
    /\ \E found \in {found_issues} :
          /\ found < MAX_ISSUE_SEARCH
          /\ added' = added \cup {<<"window", found>>}
    /\ got' = [d \in Days |-> IF d \in WindowDays THEN got[d] + DayTotal(d) ELSE got[d]]
    /\ window_start' = NextWindow(window_stop)
    /\ wpc' = "outer"
    /\ UNCHANGED <<normVars, replayVars, moreVars>>
    /\ UNCHANGED <<dayProfile, todOld, todNew, enddate, days_slice, current_slice,
                   nbr_issues>>

\* search_project_daily_issues on the day kwargs['createdAfter']: one
\* search_all_issues per (severity, type), each added as it comes
Fallback ==
    /\ wpc = "inner" /\ found_issues >= MAX_ISSUE_SEARCH /\ current_slice = 0
    /\ \E day \in {format_date(window_start)} :
          \E n \in {[p \in Partitions |-> search_all_issues(Count(day, p))]} :
             /\ got' = [got EXCEPT ![day] = @ + SumOver(Partitions, n)]
             /\ added' = added \cup {<<"partition", n[p]>> : p \in Partitions}
    /\ window_start' = NextWindow(window_stop)
    /\ wpc' = "outer"
    /\ UNCHANGED <<normVars, replayVars, moreVars>>
    /\ UNCHANGED <<dayProfile, todOld, todNew, enddate, days_slice, current_slice,
                   nbr_issues>>

Halve ==
    /\ wpc = "inner" /\ found_issues >= MAX_ISSUE_SEARCH /\ current_slice # 0
    /\ current_slice' = Reslice(current_slice)
    /\ UNCHANGED <<normVars, replayVars, moreVars>>
    /\ UNCHANGED <<dayProfile, todOld, todNew, wpc, window_start, enddate, days_slice,
                   nbr_issues, got, added>>

WindowNext == StartEmpty \/ Start \/ Outer \/ Finish \/ Accept \/ Fallback \/ Halve

(***************************************************************************)
(* Issue matcher: Issue.match, Issue.identical_to, search_siblings.  An    *)
(* Issue is the record of the attributes the matcher reads.  A match level *)
(* is counted in tenths: 10 is 1, each "match_level -= 0.1" takes one      *)
(* tenth.                                                                  *)
(***************************************************************************)
Rules      == {"S100", "S200"}
Hashes     == {"abc", "def"}
Components == {"f1", "f2"}
Messages   == {"m", "m2"}
\* "None" is the debt of an issue whose json has no 'debt'
Debts      == {"10min", "5min", "None"}

IssueAttrs(types) ==
    [rule : Rules, hash : Hashes, component : Components, message : Messages,
     debt : Debts, type : types]

\* a first test that needs both the rule and the hash to differ
DifferentIssueBoth(a, b) == a.rule # b.rule /\ a.hash # b.hash

\* self.rule != another_issue.rule or self.hash != another_issue.hash
DifferentIssue(a, b) == a.rule # b.rule \/ a.hash # b.hash

\* Issue.match, in tenths
match(a, b) ==
    IF DifferentIssue(a, b) THEN 0
    ELSE 10 - (IF a.component # b.component THEN 1 ELSE 0)
            - (IF a.message # b.message THEN 1 ELSE 0)
            - (IF a.debt # b.debt THEN 1 ELSE 0)

ScoreInit ==
    /\ ia \in IssueAttrs({"BUG", "SECURITY_HOTSPOT"})
    /\ ib \in IssueAttrs({"BUG", "SECURITY_HOTSPOT"})
    /\ mres = MNotRun
    /\ an_issue = NoIssue /\ attrs = [i \in {"A", "B"} |-> NoIssue]
    /\ an_issue_key = "-"
    /\ issue_list = <<>> /\ sres = SNoCall
    /\ call = GNoCall /\ called = {}
    /\ ptotal = 0 /\ pres = PNotRun
    /\ diffs = <<>> /\ nres = NotRun /\ cres = CNotRun
    /\ srvlog = [i \in {"A", "B"} |-> <<>>]
    /\ srvcomments = [i \in {"A", "B"} |-> NoComments]
    /\ changelog = [i \in {"A", "B"} |-> Unloaded]
    /\ comments = [i \in {"A", "B"} |-> Unloaded]
    /\ posted = [i \in {"A", "B"} |-> <<>>]
    /\ last = NoCall
    /\ applied = {}
    /\ dayProfile = [d \in 0..MaxDay |-> "empty"]
    /\ todOld = 0 /\ todNew = 0
    /\ wpc = "idle"
    /\ window_start = 0 /\ enddate = 0 /\ days_slice = 0 /\ current_slice = 0
    /\ nbr_issues = 0
    /\ got = [d \in 0..MaxDay |-> 0]
    /\ added = {}

Match ==
    /\ ~mres.run
    /\ mres' = [mres EXCEPT !.run = TRUE, !.tenths = match(ia, ib)]
    /\ UNCHANGED <<ia, ib, siblingVars, cacheVars, pageVars>>
    /\ UNCHANGED <<normVars, replayVars, windowVars>>

\* Issue.same_general_attributes
same_general_attributes(a, b) ==
    a.rule = b.rule /\ a.hash = b.hash /\ a.message = b.message

is_hotspot(a) == a.type = "SECURITY_HOTSPOT"

\* Issue.identical_to(another_issue, ignore_component)
identical_to(a, b, ignore_component) ==
    IF ~same_general_attributes(a, b) \/ (a.component # b.component /\ ~ignore_component)
    THEN FALSE
    ELSE IF ~is_hotspot(a) /\ ~is_hotspot(b) /\ a.debt # b.debt
    THEN FALSE
    ELSE TRUE

\* ia.identical_to(ib), the component compared
IdenticalTo ==
    /\ ~mres.compared
    /\ mres' = [mres EXCEPT !.compared = TRUE, !.identical = identical_to(ia, ib, FALSE)]
    /\ UNCHANGED <<ia, ib, siblingVars, cacheVars, pageVars>>
    /\ UNCHANGED <<normVars, replayVars, windowVars>>

ScoreNext == Match \/ IdenticalTo

\* search_siblings passes "not check_component" as ignore_component
IgnoreComponent(check_component) == ~check_component

\* not only_new_issues or (only_new_issues and not issue.has_changelog())
KeepIssue(only_new_issues, has) == ~only_new_issues \/ (only_new_issues /\ ~has)

\* search_siblings: the loop over issue_list from position i, with the
\* caches cl of the issues and the siblings found so far.  has_changelog is
\* called only when only_new_issues is set.
RECURSIVE search_siblings_from(_, _, _, _, _, _, _)
search_siblings_from(target, list, i, only_new_issues, check_component, cl, acc) ==
    IF i > Len(list) THEN [exc |-> "none", cl |-> cl, siblings |-> acc]
    ELSE IF ~identical_to(attrs[list[i]], target, IgnoreComponent(check_component))
    THEN search_siblings_from(target, list, i + 1, only_new_issues, check_component, cl, acc)
    ELSE IF ~only_new_issues
    THEN search_siblings_from(target, list, i + 1, only_new_issues, check_component, cl,
                              IF KeepIssue(only_new_issues, FALSE)
                              THEN Append(acc, list[i]) ELSE acc)
    ELSE The({IF h.exc # "none"
              THEN [exc |-> h.exc, cl |-> [cl EXCEPT ![list[i]] = h.cl], siblings |-> acc]
              ELSE search_siblings_from(target, list, i + 1, only_new_issues,
                       check_component, [cl EXCEPT ![list[i]] = h.cl],
                       IF KeepIssue(only_new_issues, h.has)
                       THEN Append(acc, list[i]) ELSE acc) :
              h \in {has_changelog(cl[list[i]], srvlog[list[i]])}})

search_siblings(target, list, only_new_issues, check_component) ==
    search_siblings_from(target, list, 1, only_new_issues, check_component,
                         changelog, <<>>)

\* the histories of the issues of a pool: none, a comment alone, a severity
\* change, a cleared resolution (an entry without newValue)
PoolHistories ==
    {[log |-> <<>>, json |-> NoComments],
     [log |-> <<>>, json |-> WithComments(<<[createdAt |-> 1, markdown |-> "note"]>>)],
     [log |-> <<[creationDate |-> 1, diffs |-> SeverityEntry]>>, json |-> NoComments],
     [log |-> <<[creationDate |-> 1, diffs |-> ClearedEntry]>>, json |-> NoComments]}

\* the issues of a pool and the target: one rule and one hash
PoolAttrs(types) == {a \in IssueAttrs(types) : a.rule = "S100" /\ a.hash = "abc"}

SiblingsInit ==
    /\ attrs \in [{"A", "B"} -> PoolAttrs({"BUG", "SECURITY_HOTSPOT"})]
    /\ an_issue_key \in {"A", "B", "T"}
    /\ an_issue \in IF an_issue_key \in {"A", "B"} THEN {attrs[an_issue_key]}
                    ELSE {a \in PoolAttrs({"BUG", "SECURITY_HOTSPOT"}) :
                             a.component = "f1" /\ a.message = "m" /\ a.debt = "10min"}
    /\ issue_list \in {<<"A">>, <<"A", "B">>, <<"B", "A">>}
    /\ sres = SNoCall
    /\ \E h \in [{"A", "B"} -> PoolHistories] :
          /\ srvlog = [i \in {"A", "B"} |-> h[i].log]
          /\ srvcomments = [i \in {"A", "B"} |-> h[i].json]
    /\ changelog = [i \in {"A", "B"} |-> Unloaded]
    /\ comments = [i \in {"A", "B"} |-> Unloaded]
    /\ posted = [i \in {"A", "B"} |-> <<>>]
    /\ last = NoCall
    /\ applied = {}
    /\ ia = NoIssue /\ ib = NoIssue /\ mres = MNotRun
    /\ call = GNoCall /\ called = {}
    /\ ptotal = 0 /\ pres = PNotRun
    /\ diffs = <<>> /\ nres = NotRun /\ cres = CNotRun
    /\ dayProfile = [d \in 0..MaxDay |-> "empty"]
    /\ todOld = 0 /\ todNew = 0
    /\ wpc = "idle"
    /\ window_start = 0 /\ enddate = 0 /\ days_slice = 0 /\ current_slice = 0
    /\ nbr_issues = 0
    /\ got = [d \in 0..MaxDay |-> 0]
    /\ added = {}

SearchSiblings(only_new_issues, check_component) ==
    /\ sres = SNoCall
    /\ \E r \in {search_siblings(an_issue, issue_list, only_new_issues, check_component)} :
          /\ changelog' = r.cl
          /\ sres' = [outcome |-> IF r.exc = "none" THEN "returned" ELSE r.exc,
                      only_new_issues |-> only_new_issues,
                      check_component |-> check_component,
                      siblings |-> r.siblings]
    /\ UNCHANGED <<an_issue, an_issue_key, attrs, issue_list, scoreVars, cacheVars, pageVars>>
    /\ UNCHANGED <<srvlog, srvcomments, comments, posted, last, applied>>
    /\ UNCHANGED <<normVars, windowVars>>

SiblingsNext == \E o \in BOOLEAN, c \in BOOLEAN : SearchSiblings(o, c)

(***************************************************************************)
(* One call of search_all_issues, for a query that ptotal issues match.    *)
(* The server answers each request with the requested page index.          *)
(***************************************************************************)
MaxFullPages == 22

\* the totals of the queries: a number of full pages and a rest
Totals(max) == {k * PageSize + r : k \in 0..max, r \in {0, 1, 250, 499}}

PagingInit ==
    /\ ptotal \in Totals(MaxFullPages)
    /\ pres = PNotRun
    /\ ia = NoIssue /\ ib = NoIssue /\ mres = MNotRun
    /\ an_issue = NoIssue /\ attrs = [i \in {"A", "B"} |-> NoIssue]
    /\ an_issue_key = "-"
    /\ issue_list = <<>> /\ sres = SNoCall
    /\ call = GNoCall /\ called = {}
    /\ srvlog = [i \in {"A", "B"} |-> <<>>]
    /\ srvcomments = [i \in {"A", "B"} |-> NoComments]
    /\ changelog = [i \in {"A", "B"} |-> Unloaded]
    /\ comments = [i \in {"A", "B"} |-> Unloaded]
    /\ posted = [i \in {"A", "B"} |-> <<>>]
    /\ last = NoCall
    /\ applied = {}
    /\ diffs = <<>> /\ nres = NotRun /\ cres = CNotRun
    /\ dayProfile = [d \in 0..MaxDay |-> "empty"]
    /\ todOld = 0 /\ todNew = 0
    /\ wpc = "idle"
    /\ window_start = 0 /\ enddate = 0 /\ days_slice = 0 /\ current_slice = 0
    /\ nbr_issues = 0
    /\ got = [d \in 0..MaxDay |-> 0]
    /\ added = {}

SearchAllIssues ==
    /\ ~pres.run
    /\ \E r \in {search_all_issues_run(ptotal)} :
          pres' = [run |-> TRUE, n |-> r.n, pages |-> r.pages]
    /\ UNCHANGED <<ptotal, scoreVars, siblingVars, cacheVars>>
    /\ UNCHANGED <<normVars, replayVars, windowVars>>

PagingNext == SearchAllIssues

(***************************************************************************)
(* Calls of get_changelog and has_changelog on Issue objects, in any       *)
(* order.  call is the last call: the cache before it, the requests it     *)
(* sent, what it raised and the list self.changelog it returned or         *)
(* measured; called is the set of objects called so far.                   *)
(***************************************************************************)
CacheInit ==
    /\ \E la \in UNION {Histories(RawEntries, n) : n \in 0..MaxRecords},
          lb \in UNION {Histories(RawEntries, n) : n \in 0..1} :
          srvlog = [i \in Issues |-> IF i = "A" THEN la ELSE lb]
    /\ srvcomments = [i \in Issues |-> NoComments]
    /\ changelog = [i \in Issues |-> Unloaded]
    /\ comments = [i \in Issues |-> Unloaded]
    /\ call = GNoCall /\ called = {}
    /\ posted = [i \in Issues |-> <<>>]
    /\ last = NoCall
    /\ applied = {}
    /\ ia = NoIssue /\ ib = NoIssue /\ mres = MNotRun
    /\ an_issue = NoIssue /\ attrs = [i \in {"A", "B"} |-> NoIssue]
    /\ an_issue_key = "-"
    /\ issue_list = <<>> /\ sres = SNoCall
    /\ ptotal = 0 /\ pres = PNotRun
    /\ diffs = <<>> /\ nres = NotRun /\ cres = CNotRun
    /\ dayProfile = [d \in 0..MaxDay |-> "empty"]
    /\ todOld = 0 /\ todNew = 0
    /\ wpc = "idle"
    /\ window_start = 0 /\ enddate = 0 /\ days_slice = 0 /\ current_slice = 0
    /\ nbr_issues = 0
    /\ got = [d \in 0..MaxDay |-> 0]
    /\ added = {}

CallGetChangelog(i, force_api) ==
    /\ \E r \in {get_changelog(changelog[i], srvlog[i], force_api)} :
          /\ changelog' = [changelog EXCEPT ![i] = r.cl]
          /\ call' = [issue |-> i, op |-> "get_changelog", force_api |-> force_api,
                      first |-> i \notin called, stored |-> changelog[i],
                      requests |-> r.req, exc |-> r.exc, result |-> r.cl.list]
    /\ called' = called \cup {i}
    /\ UNCHANGED <<srvlog, srvcomments, comments, posted, last, applied>>
    /\ UNCHANGED <<normVars, windowVars, scoreVars, siblingVars, pageVars>>

CallHasChangelog(i) ==
    /\ \E r \in {has_changelog(changelog[i], srvlog[i])} :
          /\ changelog' = [changelog EXCEPT ![i] = r.cl]
          /\ call' = [issue |-> i, op |-> "has_changelog", force_api |-> FALSE,
                      first |-> i \notin called, stored |-> changelog[i],
                      requests |-> r.req, exc |-> r.exc, result |-> r.cl.list]
    /\ called' = called \cup {i}
    /\ UNCHANGED <<srvlog, srvcomments, comments, posted, last, applied>>
    /\ UNCHANGED <<normVars, windowVars, scoreVars, siblingVars, pageVars>>

CacheNext ==
    \/ \E i \in Issues, f \in BOOLEAN : CallGetChangelog(i, f)
    \/ \E i \in Issues : CallHasChangelog(i)

(***************************************************************************)
(* Specifications: one per component, the other components idle.  The      *)
(* program is sequential: a started search runs on until it returns.       *)
(***************************************************************************)
SpecNorm   == NormInit /\ [][NormNext]_vars
SpecReplay == ReplayInit /\ [][ReplayNext]_vars
SpecWindow == WindowInit /\ [][WindowNext]_vars /\ WF_vars(WindowNext)
SpecScore  == ScoreInit /\ [][ScoreNext]_vars
SpecSiblings == SiblingsInit /\ [][SiblingsNext]_vars
SpecPaging == PagingInit /\ [][PagingNext]_vars
SpecCache == CacheInit /\ [][CacheNext]_vars

(***************************************************************************)
(* Claims about the replay (SpecReplay)                                    *)
(***************************************************************************)

\* C1: once apply_changelog(target, source) has run with a
\* non-empty source timeline, a second call with the same target object and
\* the same source posts no operation to the target.
C1_SecondCallPostsNothing == last.second => last.ops = <<>>

\* C2: when the target has a non-empty changelog on the server,
\* apply_changelog returns as a refusal, without raising, and posts nothing.
C2_RefusedWithoutRaising ==
    (last.target # "-" /\ srvlog[last.target] # <<>>)
        => (last.outcome = "refused" /\ last.ops = <<>>)

\* the operations of the events of a timeline, in the order of the timeline
RECURSIVE OpsOf(_, _)
OpsOf(timeline, i) ==
    IF i > Len(timeline) THEN <<>> ELSE dispatch(timeline[i]) \o OpsOf(timeline, i + 1)

BeforeUnknown(timeline) ==
    SubSeq(timeline, 1,
           (CHOOSE k \in 1..Len(timeline) :
               /\ timeline[k].event = "unknown"
               /\ \A j \in 1..(k - 1) : timeline[j].event # "unknown") - 1)

ReplayedKind(e) ==
    \/ e.event \in {"severity", "type", "assign", "tags", "comment"}
    \/ e.event = "transition" /\ e.value \in {V("reopen"), V("falsepositive"), V("wontfix")}

OneOperation(e) ==
    IF e.event = "severity" THEN Op("set_severity", e.value)
    ELSE IF e.event = "type" THEN Op("set_type", e.value)
    ELSE IF e.event = "transition" THEN Op("do_transition", e.value)
    ELSE IF e.event = "assign" THEN Op("assign", e.value)
    ELSE IF e.event = "tags" THEN Op("set_tags", V(replace_space_comma(e.value[1])))
    ELSE Op("add_comment", e.value)

\* C15: in a run whose timeline holds events of these kinds only, the
\* operations posted after the introductory comment are one per event, the
\* operation of its kind with its value.
C15_OneOperationPerEvent ==
    (/\ last.timeline # <<>>
     /\ \A k \in 1..Len(last.timeline) : ReplayedKind(last.timeline[k]))
        => last.ops = <<IntroComment(last.source)>>
                         \o [k \in 1..Len(last.timeline) |-> OneOperation(last.timeline[k])]

\* the dates of a list of events
DatesOf(events) == {events[i].date : i \in 1..Len(events)}

\* C18: of the events of one date, changelog entries then comments, the
\* timeline keeps the last one only; at most one operation is posted per
\* date, in the run and in the loop as written.
C18_OneEventPerDate ==
    last.timeline # <<>>
        => /\ Len(last.timeline) = Cardinality(DatesOf(last.events))
           /\ \A k \in 1..Len(last.timeline) :
                 \E i \in 1..Len(last.events) :
                    /\ last.events[i] = last.timeline[k]
                    /\ \A j \in (i + 1)..Len(last.events) :
                          last.events[j].date # last.timeline[k].date
           /\ Len(last.ops) <= 1 + Cardinality(DatesOf(last.events))
           /\ Len(OpsOf(last.timeline, 1)) <= Cardinality(DatesOf(last.events))

\* C18 witness: a run over a source with a changelog entry and a different
\* event of the same date, of which the timeline keeps one.
C18_Witness ==
    /\ last.timeline # <<>>
    /\ \E i, j \in 1..Len(last.events) :
          /\ i < j
          /\ last.events[i].date = last.events[j].date
          /\ last.events[i] # last.events[j]
    /\ Len(last.timeline) < Len(last.events)

\* C20: an event of kind fixed gives no operation, and no run calls
\* mark_as_reviewed, in the operations posted and in the loop as written.
C20_FixedIsNotReplayed ==
    last.timeline # <<>>
        => /\ \A k \in 1..Len(last.timeline) :
                 last.timeline[k].event = "fixed" => dispatch(last.timeline[k]) = <<>>
           /\ \A k \in 1..Len(last.ops) : last.ops[k].op # "mark_as_reviewed"
           /\ \A k \in 1..Len(OpsOf(last.timeline, 1)) :
                 OpsOf(last.timeline, 1)[k].op # "mark_as_reviewed"
           /\ Len(last.ops) <= 1 + Cardinality({k \in 1..Len(last.timeline) :
                                                  last.timeline[k].event # "fixed"})

\* C20 witness: a run that got to the replay of a timeline with an event of
\* kind fixed.
C20_Witness ==
    /\ last.timeline # <<>>
    /\ \E k \in 1..Len(last.timeline) : last.timeline[k].event = "fixed"
    /\ last.ops # <<>>

\* C22: get_all_events leaves the cached changelog as get_changelog made
\* it: a loaded cache holds the events of the issue's changelog entries on
\* the server (those parsed before an entry that raises), and no comment
\* event; get_changelog and has_changelog answer from that list.
C22_CacheIsTheChangelog ==
    \A i \in Issues :
        changelog[i].loaded
            => /\ changelog[i].list = parse_changelog(srvlog[i], 1, <<>>).list
               /\ \A k \in 1..Len(changelog[i].list) :
                     changelog[i].list[k].event # "comment"
               /\ has_changelog(changelog[i], srvlog[i]).has
                     = (parse_changelog(srvlog[i], 1, <<>>).list # <<>>)

\* the number of introductory comments among the operations of the last run
IntroComments ==
    Cardinality({k \in 1..Len(last.ops) : last.ops[k] = IntroComment(last.source)})

\* C24: in a run whose target has no changelog, nothing is posted when the
\* source has neither a changelog entry nor a comment, and the introductory
\* comment is posted exactly once when it has one.
C24_IntroOncePerRun ==
    (last.target # "-" /\ srvlog[last.target] = <<>>)
        => IF srvlog[last.source] = <<>> /\ srvcomments[last.source].list = <<>>
           THEN last.ops = <<>>
           ELSE IntroComments = 1

(***************************************************************************)
(* Claims about the windower (SpecWindow)                                  *)
(***************************************************************************)
PartitionsBelowCap == \A d \in Days, p \in Partitions : Count(d, p) < MAX_ISSUE_SEARCH

\* C4: when more than MAX_ISSUE_SEARCH issues match and every
\* (severity, type, day) partition is below the cap, the search returns
\* every issue of every day exactly once, whatever the times of day of the
\* oldest and of the newest issue.
C4_EveryIssueOnce ==
    (wpc = "done" /\ Total > MAX_ISSUE_SEARCH /\ PartitionsBelowCap)
        => \A d \in Days : got[d] = DayTotal(d)

\* C5: search_project_issues terminates: a saturated fetch at a width above
\* 0 halves the width and keeps the window start, a fetch that ends the
\* window (accepted, or the day-partition fallback at width 0) moves the
\* window start at least one day forward, and the search reaches its end.
C5_Terminates ==
    /\ <>(wpc = "done")
    /\ [][(wpc = "inner" /\ wpc' = "inner")
             => /\ current_slice > 0
                /\ 2 * current_slice' <= current_slice
                /\ window_start' = window_start]_vars
    /\ [][(wpc = "inner" /\ wpc' = "outer")
             => window_start' >= PlusDays(window_start, 1)]_vars

\* C5 witness: a finished search over more issues than the cap whose first
\* width was above 0 and that went down to the day-partition fallback.
C5_Witness ==
    /\ wpc = "done"
    /\ nbr_issues > MAX_ISSUE_SEARCH
    /\ days_slice > 1
    /\ \E f \in added : f[1] = "partition"

\* C6: every fetch whose results are added to the output, a
\* date-window fetch or a day-partition fetch, returned fewer than
\* MAX_ISSUE_SEARCH issues.
C6_AddedBelowCap == \A f \in added : f[2] < MAX_ISSUE_SEARCH

(***************************************************************************)
(* Claims about the normalizer (SpecNorm)                                  *)
(***************************************************************************)

\* C7: when the first diff has key assignee, diff_to_changelog
\* returns assign with the diff's newValue if it has one, and unassign with
\* no value if it has none.
C7_AssigneeFirst ==
    (nres # NotRun /\ diffs[1]["key"] = "assignee")
        => nres = Ok(IF "newValue" \in DOMAIN diffs[1]
                     THEN Event("assign", V(diffs[1]["newValue"]))
                     ELSE Event("unassign", None))

\* the rules of the normalizer table: whether a diff matches one
MatchesRule(d) ==
    \/ d["key"] \in {"severity", "type", "tags", "assignee", "from_short_branch", "effort"}
    \/ /\ d["key"] = "resolution"
       /\ Get(d, "newValue", "") \in {"FALSE-POSITIVE", "WONTFIX", "FIXED"}
    \/ /\ d["key"] = "status"
       /\ \/ Get(d, "newValue", "") \in {"CONFIRMED", "REOPENED"}
          \/ Get(d, "newValue", "") = "OPEN" /\ Get(d, "oldValue", "") = "CLOSED"

FirstMatch(ds) == CHOOSE i \in 1..Len(ds) :
                     MatchesRule(ds[i]) /\ \A j \in 1..(i - 1) : ~MatchesRule(ds[j])

\* C8, on the diff lists that hold no assignee diff and on
\* which the call returns: the result is the event of the first diff that
\* matches a rule, and it is unknown only when no diff matches a rule.
C8_FirstMatchWins ==
    (nres.exc = "none" /\ \A i \in 1..Len(diffs) : diffs[i]["key"] # "assignee")
        => IF \E i \in 1..Len(diffs) : MatchesRule(diffs[i])
           THEN nres = get_event_from_diff(diffs[FirstMatch(diffs)])
           ELSE nres.ev.event = "unknown"

\* C9: diff_to_changelog returns an event and does not raise,
\* whichever of oldValue and newValue the diffs lack.
C9_NeverRaises == nres # NotRun => nres.exc = "none"

\* C10: an entry whose first diff is status -> REOPENED with an
\* oldValue is unconfirm when the oldValue is CONFIRMED and reopen for any
\* other, for diff_to_changelog and for Changelog.changelog_type.
C10_ReopenedClassified ==
    (/\ diffs[1]["key"] = "status"
     /\ Get(diffs[1], "newValue", "") = "REOPENED"
     /\ "oldValue" \in DOMAIN diffs[1])
        => /\ nres # NotRun =>
                nres = Ok(Event("transition",
                                IF diffs[1]["oldValue"] = "CONFIRMED"
                                THEN V("unconfirm") ELSE V("reopen")))
           /\ cres # CNotRun =>
                cres.ctype = IF diffs[1]["oldValue"] = "CONFIRMED"
                             THEN "UNCONFIRM" ELSE "REOPEN"

\* the number of days from the day of the oldest issue to the day of the
\* newest, both counted
spanDays == NewestDay - OldestDay + 1

\* C19: once the search has computed its first width, with spanDays the
\* days from the oldest to the newest issue counted inclusively: when more
\* than MAX_ISSUE_SEARCH issues match, the width is the integer quotient
\* (MAX_ISSUE_SEARCH * spanDays) div (4 * nbr_issues), at most a quarter of
\* spanDays and below it; otherwise the first window, from the day of the
\* oldest issue, reaches the day of the newest.
C19_FirstWidth ==
    (wpc \in {"outer", "inner", "done"} /\ BusyDays # {})
        => IF nbr_issues > MAX_ISSUE_SEARCH
           THEN /\ days_slice = (MAX_ISSUE_SEARCH * spanDays) \div (4 * nbr_issues)
                /\ days_slice < spanDays
                /\ 4 * days_slice <= spanDays
           ELSE format_date(PlusDays(Instant(OldestDay, todOld), days_slice)) >= NewestDay

(***************************************************************************)
(* Claims about the issue matcher (SpecScore, SpecSiblings)                *)
(***************************************************************************)

\* the attributes among component, message and debt on which two issues differ
Mismatches(a, b) == {f \in {"component", "message", "debt"} : a[f] # b[f]}

C23_MatchersAgree ==
    (mres.run /\ mres.compared) => (mres.identical <=> mres.tenths = 10)

\* the timeline of an issue: the events of its changelog entries and of its
\* comments
HasTimeline(i) == srvlog[i] # <<>> \/ srvcomments[i].list # <<>>

\* C12: with only_new_issues set, search_siblings returns no issue whose
\* timeline (changelog events and comment events) is non-empty, an issue
\* with comments and no changelog entry included.
C12_OnlyNewHaveNoTimeline ==
    (sres.outcome = "returned" /\ sres.only_new_issues)
        => \A k \in 1..Len(sres.siblings) : ~HasTimeline(sres.siblings[k])

\* the pool members searchSiblings(issue, pool, onlyNew, ignoreComponent)
\* is to return
IsSibling(i, onlyNew, ignoreComponent) ==
    /\ identical_to(attrs[i], an_issue, ignoreComponent)
    /\ onlyNew => srvlog[i] = <<>>

\* C13: called with (issue, pool, onlyNew, ignoreComponent), search_siblings
\* returns the pool members identical to the target, the component ignored
\* exactly when the fourth argument is true, that have no changelog when
\* onlyNew is set, in the order of the pool.
C13_ExactlyTheSiblings ==
    sres.outcome = "returned"
        => sres.siblings =
              SelectSeq(issue_list,
                        LAMBDA i : IsSibling(i, sres.only_new_issues, sres.check_component))


\* C21: no call returns the target itself: every sibling returned has a
\* key different from the target's, also when the target is in the pool.
C21_TargetIsNoSibling ==
    sres.outcome = "returned"
        => \A k \in 1..Len(sres.siblings) : sres.siblings[k] # an_issue_key

(***************************************************************************)
(* Claims about search_all_issues (SpecPaging)                             *)
(***************************************************************************)

\* the number of pages the server reports for a query of total issues
PagesOf(total) == ((total - 1) \div PageSize) + 1

\* C16: one call requests the pages 1, 2, 3, ... in increasing order; it
\* stops after the last page the server reports or after page MaxPages,
\* whichever comes first, so it makes at most MaxPages requests; it returns
\* at most MAX_ISSUE_SEARCH issues, every matching issue when they fit in
\* MaxPages pages, and it returns (MAX_ISSUE_SEARCH issues) when more match.
C16_PagesInOrderUpToCap ==
    pres.run
        => /\ pres.pages = [i \in 1..Len(pres.pages) |-> i]
           /\ Len(pres.pages) >= 1
           /\ Len(pres.pages) <= MaxPages
           /\ \/ Len(pres.pages) = MaxPages
              \/ Len(pres.pages) >= PagesOf(ptotal)
           /\ \A j \in 1..(Len(pres.pages) - 1) : j < PagesOf(ptotal) /\ j < MaxPages
           /\ pres.n <= MAX_ISSUE_SEARCH
           /\ ptotal <= MaxPages * PageSize => pres.n = ptotal
           /\ ptotal > MAX_ISSUE_SEARCH => pres.n = MAX_ISSUE_SEARCH

\* C16 witness: a call for a query that more than MAX_ISSUE_SEARCH issues
\* match has returned after MaxPages requests.
C16_Witness ==
    /\ pres.run
    /\ ptotal > MAX_ISSUE_SEARCH
    /\ Len(pres.pages) = MaxPages


(***************************************************************************)
(* Claims about the changelog cache (SpecCache)                            *)
(***************************************************************************)

\* C17: a call of get_changelog or has_changelog sends one changelog
\* request when it is the first call on the Issue object or has force_api
\* set; any other call sends none and works on the list stored before it;
\* an issue without history gives the empty list and raises nothing.
C17_RequestOnFirstOrForced ==
    call.op # "none"
        => /\ (call.first \/ call.force_api) => call.requests = 1
           /\ ~(call.first \/ call.force_api)
                 => /\ call.requests = 0
                    /\ call.stored.loaded
                    /\ call.result = call.stored.list
                    /\ call.exc = "none"
           /\ changelog[call.issue] = Loaded(call.result)
           /\ srvlog[call.issue] = <<>>
                 => (call.exc = "none" /\ call.result = <<>>)

\* C17 witness: a forced call on an object called before, whose changelog
\* on the server is not empty, has sent its request.
C17_Witness ==
    /\ call.op = "get_changelog"
    /\ call.force_api /\ ~call.first
    /\ call.stored.loaded
    /\ srvlog[call.issue] # <<>>
    /\ call.requests = 1

=============================================================================
